---- MODULE Spec2Model ----
(***************************************************************************)
(* Model of src/singleton-crtp.h: the has_MainCtor trait, the two          *)
(* CheckIsMainCtorCalled overloads and the class template SingletonCRTP<T> *)
(* (static pointer `instance`, CreateSingleton, GetInstance, operator*,    *)
(* operator->, the protected constructor and the virtual destructor).      *)
(*                                                                         *)
(* The template parameter T is a value of the model: a type descriptor     *)
(* saying how T declares the member IsMainCtorCalled.  Objects of Type     *)
(* live in a small heap; 0 is nullptr.  assert() is modelled as compiled   *)
(* in (no NDEBUG): a failed assertion aborts the process.                  *)
(***************************************************************************)
EXTENDS Integers, FiniteSets, Sequences

\* ---------------------------------------------------------------- bounds
MaxObjs == 3      \* heap cells available for objects of Type
MaxVal == 1       \* constructor argument values are 0..MaxVal
MaxDepth == 3     \* destructor frames the call stack holds before overflowing

nullptr == 0

Threads == {"t1", "t2"}
MainThread == "t1"
ObjIds == 1..MaxObjs

\* How T declares IsMainCtorCalled: not at all, as bool (e.g. by inheriting
\* IMainCtor), or as a member of another type.
MarkerTypes == {"none", "bool", "int"}
Types == [marker : MarkerTypes]
Ctors == {"main", "other"}

VARIABLES
  T,          \* the template argument of SingletonCRTP<T>
  instance,   \* static Type* instance
  objs,       \* heap: object id -> [state, val, flag, dtors, frees]
  pc,         \* per thread: position in the running call
  frame,      \* per thread: the running (or last) call's operation, arguments, locals
  ret,        \* per thread: the last value returned to the caller (nullptr if none)
  stack,      \* per thread: objects whose destructor is executing, innermost last
  status,     \* "running", or how the process ended
  firstArgs,  \* history: arguments of the first CreateSingleton call
  firstRet    \* history: object returned by the first returning CreateSingleton call

vars == <<T, instance, objs, pc, frame, ret, stack, status, firstArgs, firstRet>>

\* ------------------------------------------------------------ the trait
\* struct IMainCtor { bool IsMainCtorCalled{false}; };
IMainCtor == [marker |-> "bool"]

\* decltype(std::declval<X>().IsMainCtorCalled): the declared type of the
\* member, "none" standing for a substitution failure (no such member).
DeclTypeOfMarker(X) == X.marker

\* The default second template argument of the primary template.
has_MainCtor_Default == DeclTypeOfMarker(IMainCtor)

\* The partial specialization <T, decltype(declval<T>().IsMainCtorCalled)> is
\* chosen when its second argument is well formed and equals the default one.
has_MainCtor(X) ==
  /\ DeclTypeOfMarker(X) # "none"
  /\ DeclTypeOfMarker(X) = has_MainCtor_Default

CheckIsMainCtorCalled_Always(X, o) == TRUE

\* Overload resolution between the enable_if template and the (...) overload.
CheckIsMainCtorCalled(X, o) ==
  IF has_MainCtor(X) THEN o.flag ELSE TRUE

\* ------------------------------------------------------------- helpers
FreshObj == [state |-> "unalloc", val |-> 0, flag |-> FALSE, dtors |-> 0, frees |-> 0]
NoFrame == [op |-> "none", ctor |-> "other", val |-> 0, sawNull |-> FALSE, built |-> nullptr]
NoArgs == [ctor |-> "none", val |-> 0]

Live == {o \in ObjIds : objs[o].state = "live"}
Constructed == {o \in ObjIds : objs[o].state # "unalloc"}
Idle(t) == pc[t] = "idle" /\ status = "running"

TypeOK ==
  /\ T \in Types
  /\ instance \in {nullptr} \cup ObjIds
  /\ \A o \in ObjIds : objs[o].state \in {"unalloc", "live", "dying", "freed"}
  /\ \A t \in Threads : ret[t] \in {nullptr} \cup ObjIds
  /\ status \in {"running", "assert_failed", "stack_overflow", "double_destroy", "null_deref"}

InitCommon ==
  /\ T \in Types
  /\ instance = nullptr
  /\ objs = [o \in ObjIds |-> FreshObj]
  /\ frame = [t \in Threads |-> NoFrame]
  /\ ret = [t \in Threads |-> nullptr]
  /\ stack = [t \in Threads |-> <<>>]
  /\ status = "running"
  /\ firstArgs = NoArgs
  /\ firstRet = nullptr

\* One thread uses the utility.
Init ==
  /\ InitCommon
  /\ pc = [t \in Threads |-> IF t = MainThread THEN "idle" ELSE "off"]

\* Two threads use the utility with no synchronization.
InitConc ==
  /\ InitCommon
  /\ pc = [t \in Threads |-> "idle"]

\* ----------------------------------------------------- CreateSingleton
\* A caller enters CreateSingleton(args...).
CallCreateSingleton(t) ==
  /\ Idle(t)
  /\ \E c \in Ctors, v \in 0..MaxVal :
       /\ frame' = [frame EXCEPT ![t] = [op |-> "CreateSingleton", ctor |-> c, val |-> v,
                                          sawNull |-> FALSE, built |-> nullptr]]
       /\ firstArgs' = IF firstArgs = NoArgs THEN [ctor |-> c, val |-> v] ELSE firstArgs
  /\ pc' = [pc EXCEPT ![t] = "cs76"]
  /\ UNCHANGED <<T, instance, objs, ret, stack, status, firstRet>>

CS76_NoCheck(t) ==
  /\ pc[t] = "cs76" /\ status = "running"
  /\ frame' = [frame EXCEPT ![t].sawNull = TRUE]
  /\ pc' = [pc EXCEPT ![t] = "new_base"]
  /\ UNCHANGED <<T, instance, objs, ret, stack, status, firstArgs, firstRet>>

\* line 76: if(!instance)
CS76(t) ==
  /\ pc[t] = "cs76" /\ status = "running"
  /\ IF instance = nullptr
       THEN /\ frame' = [frame EXCEPT ![t].sawNull = TRUE]
            /\ pc' = [pc EXCEPT ![t] = "new_base"]
       ELSE /\ frame' = frame
            /\ pc' = [pc EXCEPT ![t] = "cs79"]
  /\ UNCHANGED <<T, instance, objs, ret, stack, status, firstArgs, firstRet>>

BaseCtor_Reuse(t) ==
  /\ pc[t] = "new_base" /\ status = "running"
  /\ IF instance # nullptr
       THEN /\ frame' = [frame EXCEPT ![t].built = instance]
            /\ UNCHANGED <<objs, instance>>
       ELSE \E o \in ObjIds :
              /\ objs[o].state = "unalloc"
              /\ \A p \in ObjIds : p < o => objs[p].state # "unalloc"
              /\ objs' = [objs EXCEPT ![o].state = "live"]
              /\ instance' = o
              /\ frame' = [frame EXCEPT ![t].built = o]
  /\ pc' = [pc EXCEPT ![t] = "new_body"]
  /\ UNCHANGED <<T, ret, stack, status, firstArgs, firstRet>>

\* new Type(...): storage is obtained and the base-class constructor
\* SingletonCRTP() runs first (lines 135-137): instance = static_cast<Type*>(this).
\* The members have their default initializers (IsMainCtorCalled{false}).
BaseCtor(t) ==
  /\ pc[t] = "new_base" /\ status = "running"
  /\ \E o \in ObjIds :
       /\ objs[o].state = "unalloc"
       /\ \A p \in ObjIds : p < o => objs[p].state # "unalloc"
       /\ objs' = [objs EXCEPT ![o].state = "live"]
       /\ instance' = o
       /\ frame' = [frame EXCEPT ![t].built = o]
  /\ pc' = [pc EXCEPT ![t] = "new_body"]
  /\ UNCHANGED <<T, ret, stack, status, firstArgs, firstRet>>

\* The body of the constructor of Type that the arguments select: it stores
\* its argument, and the main constructor sets IsMainCtorCalled when T has it.
TypeCtor(t) ==
  /\ pc[t] = "new_body" /\ status = "running"
  /\ LET o == frame[t].built IN
       objs' = [objs EXCEPT ![o].val = frame[t].val,
                            ![o].flag = (T.marker # "none" /\ frame[t].ctor = "main")]
  /\ pc' = [pc EXCEPT ![t] = IF frame[t].op = "CreateSingleton" THEN "cs77" ELSE "new_ret"]
  /\ UNCHANGED <<T, instance, frame, ret, stack, status, firstArgs, firstRet>>

\* line 77: instance = <the new-expression's value>
CS77(t) ==
  /\ pc[t] = "cs77" /\ status = "running"
  /\ instance' = frame[t].built
  /\ pc' = [pc EXCEPT ![t] = "cs79"]
  /\ UNCHANGED <<T, objs, frame, ret, stack, status, firstArgs, firstRet>>

CS79_NoAssert(t) ==
  /\ pc[t] = "cs79" /\ status = "running"
  /\ pc' = [pc EXCEPT ![t] = "cs80"]
  /\ UNCHANGED <<T, instance, objs, frame, ret, stack, status, firstArgs, firstRet>>

\* line 79: assert(CheckIsMainCtorCalled(instance))
CS79(t) ==
  /\ pc[t] = "cs79" /\ status = "running"
  /\ IF instance = nullptr
       THEN status' = "null_deref" /\ pc' = pc
       ELSE IF CheckIsMainCtorCalled(T, objs[instance])
              THEN status' = status /\ pc' = [pc EXCEPT ![t] = "cs80"]
              ELSE status' = "assert_failed" /\ pc' = pc
  /\ UNCHANGED <<T, instance, objs, frame, ret, stack, firstArgs, firstRet>>

\* line 80: return *instance
CS80(t) ==
  /\ pc[t] = "cs80" /\ status = "running"
  /\ IF instance = nullptr
       THEN status' = "null_deref" /\ UNCHANGED <<pc, ret, firstRet>>
       ELSE /\ status' = status
            /\ ret' = [ret EXCEPT ![t] = instance]
            /\ firstRet' = IF firstRet = nullptr THEN instance ELSE firstRet
            /\ pc' = [pc EXCEPT ![t] = "idle"]
  /\ UNCHANGED <<T, instance, objs, frame, stack, firstArgs>>

\* --------------------------------------------------------- GetInstance
GetInstance_NoAssert(t) ==
  /\ Idle(t)
  /\ frame' = [frame EXCEPT ![t] = [NoFrame EXCEPT !.op = "GetInstance"]]
  /\ ret' = [ret EXCEPT ![t] = instance]
  /\ UNCHANGED <<T, instance, objs, pc, stack, status, firstArgs, firstRet>>

\* lines 87-90: assert(instance != nullptr); return instance;
GetInstance(t) ==
  /\ Idle(t)
  /\ frame' = [frame EXCEPT ![t] = [NoFrame EXCEPT !.op = "GetInstance"]]
  /\ IF instance = nullptr
       THEN status' = "assert_failed" /\ ret' = ret
       ELSE status' = status /\ ret' = [ret EXCEPT ![t] = instance]
  /\ UNCHANGED <<T, instance, objs, pc, stack, firstArgs, firstRet>>

\* ------------------------------------------------ operator* / operator->
\* The caller applies the operator to the object it holds (this); the
\* operator ignores this and dereferences the static pointer.
Deref(t, opname) ==
  /\ Idle(t)
  /\ ret[t] # nullptr
  /\ objs[ret[t]].state = "live"
  /\ frame' = [frame EXCEPT ![t] = [NoFrame EXCEPT !.op = opname]]
  /\ IF instance = nullptr
       THEN status' = "null_deref" /\ ret' = ret
       ELSE status' = status /\ ret' = [ret EXCEPT ![t] = instance]
  /\ UNCHANGED <<T, instance, objs, pc, stack, firstArgs, firstRet>>

\* lines 112-114 and 120-122: return *instance;
OperatorStar(t) == Deref(t, "operator*")

\* lines 96-98 and 104-106: return &**this;
OperatorArrow(t) == Deref(t, "operator->")

\* ------------------------------------- construction outside the utility
\* Code that can reach a constructor of Type (Type itself, a friend, or any
\* code when the constructor is public) builds another object: the
\* protected base constructor runs for it as for any object of Type.
CallNew(t) ==
  /\ Idle(t)
  /\ \E c \in Ctors, v \in 0..MaxVal :
       frame' = [frame EXCEPT ![t] = [op |-> "new", ctor |-> c, val |-> v,
                                       sawNull |-> FALSE, built |-> nullptr]]
  /\ pc' = [pc EXCEPT ![t] = "new_base"]
  /\ UNCHANGED <<T, instance, objs, ret, stack, status, firstArgs, firstRet>>

NewRet(t) ==
  /\ pc[t] = "new_ret" /\ status = "running"
  /\ ret' = [ret EXCEPT ![t] = frame[t].built]
  /\ pc' = [pc EXCEPT ![t] = "idle"]
  /\ UNCHANGED <<T, instance, objs, frame, stack, status, firstArgs, firstRet>>

\* ----------------------------------------------------------- destructor
\* The destructor of object o is entered: one more frame on the call stack.
EnterDtor(t, o) ==
  IF Len(stack[t]) >= MaxDepth
    THEN /\ status' = "stack_overflow"
         /\ UNCHANGED <<objs, stack>>
    ELSE /\ status' = status
         /\ objs' = [objs EXCEPT ![o].state = "dying", ![o].dtors = @ + 1]
         /\ stack' = [stack EXCEPT ![t] = Append(@, o)]

\* delete p, for the pointer p the caller holds: ~Type() runs, then the
\* base destructor ~SingletonCRTP() (lines 142-145).
Delete(t) ==
  /\ Idle(t)
  /\ ret[t] # nullptr
  /\ objs[ret[t]].state = "live"
  /\ frame' = [frame EXCEPT ![t] = [NoFrame EXCEPT !.op = "delete", !.built = ret[t]]]
  /\ EnterDtor(t, ret[t])
  /\ pc' = [pc EXCEPT ![t] = "dtor"]
  /\ UNCHANGED <<T, instance, ret, firstArgs, firstRet>>

\* The body of ~SingletonCRTP() in the innermost frame.
\* line 143, delete instance: a null pointer is left alone; otherwise the
\* destructor of *instance is invoked from inside this one.  When *instance is
\* an object whose destruction has already begun the behaviour is undefined:
\* the virtual call lands in this destructor again, or the process dies at once.
\* line 144, instance = nullptr, is reached only past a null `instance`; the
\* frames then return one after the other, each delete freeing its object.
Destructor(t) ==
  /\ pc[t] = "dtor" /\ status = "running"
  /\ IF instance = nullptr
       THEN /\ instance' = nullptr
            /\ objs' = [o \in ObjIds |->
                 LET n == Cardinality({i \in 1..Len(stack[t]) : stack[t][i] = o}) IN
                   IF n = 0 THEN objs[o]
                   ELSE [objs[o] EXCEPT !.state = "freed", !.frees = @ + n]]
            /\ stack' = [stack EXCEPT ![t] = <<>>]
            /\ pc' = [pc EXCEPT ![t] = "idle"]
            /\ status' = status
       ELSE /\ instance' = instance
            /\ pc' = pc
            /\ IF objs[instance].state = "live"
                 THEN EnterDtor(t, instance)
                 ELSE \/ EnterDtor(t, instance)
                      \/ status' = "double_destroy" /\ UNCHANGED <<objs, stack>>
  /\ UNCHANGED <<T, frame, ret, firstArgs, firstRet>>

\* -------------------------------------------------------- specifications
\* The interface of the utility, as a client uses it.
Api(t) ==
  \/ CallCreateSingleton(t)
  \/ CS76(t)
  \/ BaseCtor(t)
  \/ TypeCtor(t)
  \/ CS77(t)
  \/ CS79(t)
  \/ CS80(t)
  \/ GetInstance(t)
  \/ OperatorStar(t)
  \/ OperatorArrow(t)

Next == \E t \in Threads : Api(t)

\* One thread, the interface only.
Spec == Init /\ [][Next]_vars

\* One thread, with objects of Type also constructed and deleted directly.
NextFull ==
  \E t \in Threads :
    \/ Api(t)
    \/ CallNew(t)
    \/ NewRet(t)
    \/ Delete(t)
    \/ Destructor(t)

SpecFull == Init /\ [][NextFull]_vars

\* One thread, the interface plus delete of the pointer it handed out.
NextDestroy ==
  \E t \in Threads :
    \/ Api(t)
    \/ Delete(t)
    \/ Destructor(t)

SpecDestroy == Init /\ [][NextDestroy]_vars

\* Two unsynchronized threads, the interface only.
SpecConc == InitConc /\ [][Next]_vars

\* ------------------------------------------------------------ properties
Returned(t, opname) == frame[t].op = opname /\ pc[t] = "idle" /\ status = "running"

\* C1: after any sequence of CreateSingleton and GetInstance calls at most one
\* object of Type has been constructed, and a live one exists exactly when the
\* static pointer is non-null.
C1_AtMostOneInstance ==
  /\ Cardinality(Constructed) <= 1
  /\ Cardinality(Live) = 1 <=> instance # nullptr

\* A later CreateSingleton call has returned and the single object is live.
C1_Witness ==
  /\ Returned(MainThread, "CreateSingleton")
  /\ ~frame[MainThread].sawNull
  /\ Cardinality(Live) = 1

\* C2: once the static pointer refers to a live object, no step makes it refer
\* to a different object while that object stays live (the base constructor
\* running for another object of Type included).
C2_NeverReplacedWhileLive ==
  [][(instance # nullptr /\ objs[instance].state = "live" /\ objs'[instance].state = "live")
       => instance' = instance]_vars

\* C3: GetInstance called with a null static pointer ends in the failed
\* assertion and hands out nothing; called with a non-null pointer it returns
\* exactly that pointer and does not fail.
C3_GetInstancePrecondition ==
  \A t \in Threads :
    frame[t].op = "GetInstance" =>
      IF instance = nullptr
        THEN status = "assert_failed" /\ ret[t] = nullptr
        ELSE status = "running" /\ ret[t] = instance

C3_Witness ==
  /\ frame[MainThread].op = "GetInstance"
  /\ instance = nullptr
  /\ status = "assert_failed"

\* C4: the CreateSingleton call that constructs the instance never gets past
\* its assertion when T declares bool IsMainCtorCalled and the selected
\* constructor leaves it false (the process ends in the failed assertion
\* there); when T has no such member, or the constructor sets it, the call
\* does not fail and what it returns is the instance.
C4_UnsetFlagIsFatal ==
  \A t \in Threads :
    (frame[t].op = "CreateSingleton" /\ frame[t].sawNull) =>
      /\ (T.marker = "bool" /\ frame[t].ctor = "other") =>
           /\ pc[t] \notin {"cs80", "idle"}
           /\ ret[t] = nullptr
           /\ pc[t] = "cs79" => status = "assert_failed" \/ ENABLED CS79(t)
      /\ (T.marker = "none" \/ frame[t].ctor = "main") =>
           /\ status = "running"
           /\ pc[t] = "idle" => ret[t] = instance /\ ret[t] = frame[t].built

C4_Witness ==
  /\ frame[MainThread].op = "CreateSingleton"
  /\ T.marker = "bool"
  /\ frame[MainThread].ctor = "other"
  /\ pc[MainThread] = "cs79"
  /\ status = "assert_failed"

C6_FirstCallWins ==
  \A t \in Threads :
    (Returned(t, "CreateSingleton") \/ Returned(t, "GetInstance")) =>
      /\ firstRet # nullptr
      /\ ret[t] = firstRet
      /\ instance = firstRet
      /\ Constructed = {firstRet}
      /\ objs[firstRet].state = "live"
      /\ objs[firstRet].val = firstArgs.val
      /\ objs[firstRet].flag = (T.marker # "none" /\ firstArgs.ctor = "main")

\* A later call, with arguments other than the first call's, has returned.
C6_Witness ==
  /\ Returned(MainThread, "CreateSingleton")
  /\ ~frame[MainThread].sawNull
  /\ frame[MainThread].val # firstArgs.val
  /\ frame[MainThread].ctor # firstArgs.ctor
  /\ ret[MainThread] = firstRet

\* C7: has_MainCtor<T> is true exactly when T has a member named
\* IsMainCtorCalled, whatever its type, and CheckIsMainCtorCalled then yields
\* the member's current value (true for a type without the member).
C7_TraitDetectsAnyMember ==
  \A o \in Live :
    /\ has_MainCtor(T) <=> T.marker # "none"
    /\ CheckIsMainCtorCalled(T, objs[o]) = (IF T.marker # "none" THEN objs[o].flag ELSE TRUE)

\* C9: when two threads have both found the static pointer null at line 76
\* and both finished line 77's new-expression, two different objects of Type
\* are live and the static pointer refers to one of the two.
C9_BothFirstCallsConstruct ==
  \A t1, t2 \in Threads :
    (/\ t1 # t2
     /\ frame[t1].sawNull /\ frame[t2].sawNull
     /\ frame[t1].built # nullptr /\ frame[t2].built # nullptr) =>
      /\ frame[t1].built # frame[t2].built
      /\ {frame[t1].built, frame[t2].built} \subseteq Live
      /\ instance \in {frame[t1].built, frame[t2].built}
      /\ Cardinality(Constructed) = 2

\* Both calls have returned, each a different object.
C9_Witness ==
  /\ \A t \in Threads : Returned(t, "CreateSingleton") /\ frame[t].sawNull
  /\ ret["t1"] # nullptr /\ ret["t2"] # nullptr
  /\ ret["t1"] # ret["t2"]
  /\ instance \in {ret["t1"], ret["t2"]}
  /\ Cardinality(Live) = 2

\* C10: deleting the live instance runs each object's destructor once, frees
\* it once, ends normally, and leaves the static pointer null.
C10_DestroyedOnceAndReset ==
  /\ status \notin {"stack_overflow", "double_destroy"}
  /\ \A o \in ObjIds : objs[o].dtors <= 1 /\ objs[o].frees <= 1
  /\ \A t \in Threads :
       Returned(t, "delete") =>
         instance = nullptr /\ objs[frame[t].built].state = "freed"

====
